---- MODULE Spec2Model ----
(***************************************************************************)
(* Model of the script execution engine of archicad-mcp:                   *)
(*   config.py              path policy (SecurityConfig, matches_pattern)  *)
(*   scripting/executor.py  safe_open, namespace, ScriptExecutor.run       *)
(* Strings whose characters matter (paths, patterns, open modes) are       *)
(* sequences of one-character strings.                                     *)
(***************************************************************************)
EXTENDS Integers, Sequences, FiniteSets, TLC

VARIABLES
    platform,        \* sys.platform of the process
    config,          \* the SecurityConfig object loaded at start (shared by reference)
    expanded_cache,  \* cached_property values of config (None until first read)
    lastCheck,       \* is_path_blocked call of the last file operation: path, intent, verdict
    lastOpen,        \* underlying open() call of the last file operation, with the route taken
    lastError,       \* PermissionError raised by the last file operation
    runs,            \* per invocation of ScriptExecutor.run: its frame (script, position, locals, result)
    buffers,         \* heap of io.StringIO objects: object id -> text written so far
    namespaces,      \* heap of namespace dicts: object id -> the value under the key "result"
    shared_stdout,   \* process standard output stream (sys.stdout)
    script_builtins, \* names in the module-level dict SCRIPT_BUILTINS
    connection,      \* the ArchicadConnection the invocations use: its add-on record
    connections,     \* ConnectionManager.connections: port -> ArchicadConnection
    call             \* last call of a function of the library made on its own: arguments and outcome

pvars == <<platform, config, expanded_cache, lastCheck, lastOpen, lastError>>
xvars == <<runs, buffers, namespaces, shared_stdout, script_builtins, connection>>
vars == <<platform, config, expanded_cache, lastCheck, lastOpen, lastError,
          runs, buffers, namespaces, shared_stdout, script_builtins, connection,
          connections, call>>

\* Python None; every optional value of the model is a record with a kind
None == [kind |-> "NoneType"]

PyInt(n) == [kind |-> "int", value |-> n]
PyStr(t) == [kind |-> "str", value |-> t]
PyList(items) == [kind |-> "list", items |-> items]
PyTuple(items) == [kind |-> "tuple", items |-> items]
PyDict(items) == [kind |-> "dict", items |-> items]
PyBool(b) == [kind |-> "bool", value |-> b]

Min(a, b) == IF a < b THEN a ELSE b

-----------------------------------------------------------------------------
(* Characters and strings                                                  *)

\* str.lower() on one character
LowerChar(c) ==
    CASE c = "A" -> "a" [] c = "B" -> "b" [] c = "C" -> "c" [] c = "D" -> "d"
      [] c = "E" -> "e" [] c = "F" -> "f" [] c = "G" -> "g" [] c = "H" -> "h"
      [] c = "I" -> "i" [] c = "J" -> "j" [] c = "K" -> "k" [] c = "L" -> "l"
      [] c = "M" -> "m" [] c = "N" -> "n" [] c = "O" -> "o" [] c = "P" -> "p"
      [] c = "Q" -> "q" [] c = "R" -> "r" [] c = "S" -> "s" [] c = "T" -> "t"
      [] c = "U" -> "u" [] c = "V" -> "v" [] c = "W" -> "w" [] c = "X" -> "x"
      [] c = "Y" -> "y" [] c = "Z" -> "z"
      [] OTHER -> c

lower(s) == [i \in 1..Len(s) |-> LowerChar(s[i])]

\* str.replace(old, new) for a one-character old
replace_char(s, old, new) == [i \in 1..Len(s) |-> IF s[i] = old THEN new ELSE s[i]]

startswith(s, prefix) ==
    Len(s) >= Len(prefix) /\ SubSeq(s, 1, Len(prefix)) = prefix

RECURSIVE replace_sub(_, _, _)
\* str.replace(old, new) for a multi-character old
replace_sub(s, old, new) ==
    IF s = <<>> THEN <<>>
    ELSE IF startswith(s, old) THEN new \o replace_sub(SubSeq(s, Len(old) + 1, Len(s)), old, new)
    ELSE <<Head(s)>> \o replace_sub(Tail(s), old, new)

RECURSIVE contains_sub(_, _)
contains_sub(s, sub) ==
    IF Len(s) < Len(sub) THEN FALSE
    ELSE startswith(s, sub) \/ contains_sub(Tail(s), sub)

RECURSIVE SplitRec(_, _, _, _)
SplitRec(s, seps, cur, acc) ==
    IF s = <<>> THEN Append(acc, cur)
    ELSE IF Head(s) \in seps THEN SplitRec(Tail(s), seps, <<>>, Append(acc, cur))
    ELSE SplitRec(Tail(s), seps, Append(cur, Head(s)), acc)

\* the segments of s between separators
Split(s, seps) == SplitRec(s, seps, <<>>, <<>>)

RECURSIVE JoinSegs(_, _)
\* every segment preceded by the separator
JoinSegs(segs, sep) ==
    IF segs = <<>> THEN <<>> ELSE <<sep>> \o Head(segs) \o JoinSegs(Tail(segs), sep)

-----------------------------------------------------------------------------
(* The process environment                                                 *)

Platforms == {"linux", "darwin", "win32"}

\* Path.home()
Home(plat) ==
    IF plat = "win32" THEN <<"C", ":", "\\", "U", "s", "e", "r", "s", "\\", "u">>
    ELSE <<"/", "h", "o", "m", "e", "/", "u">>

\* tempfile.gettempdir()
TempDir(plat) ==
    IF plat = "win32" THEN <<"C", ":", "\\", "T", "e", "m", "p">>
    ELSE <<"/", "t", "m", "p">>

\* the working directory relative paths are resolved against
Cwd(plat) ==
    IF plat = "win32" THEN <<"C", ":", "\\", "w", "o", "r", "k">>
    ELSE <<"/", "w", "o", "r", "k">>

\* top-level directories that are symbolic links into /private on macOS
DarwinPrivateLinks == {<<"e", "t", "c">>, <<"v", "a", "r">>, <<"t", "m", "p">>}

-----------------------------------------------------------------------------
(* pathlib: Path(path).expanduser().resolve()                              *)

Seps(plat) == IF plat = "win32" THEN {"/", "\\"} ELSE {"/"}

HasDrive(plat, s) == plat = "win32" /\ Len(s) >= 2 /\ s[2] = ":"

RECURSIVE DropDots(_)
\* empty segments and "." segments vanish when a path is parsed
DropDots(segs) ==
    IF segs = <<>> THEN <<>>
    ELSE IF Head(segs) = <<>> \/ Head(segs) = <<".">> THEN DropDots(Tail(segs))
    ELSE <<Head(segs)>> \o DropDots(Tail(segs))

RECURSIVE CollapseRec(_, _)
\* ".." removes the segment before it; at the root it is dropped
CollapseRec(segs, acc) ==
    IF segs = <<>> THEN acc
    ELSE IF Head(segs) = <<".", ".">>
         THEN CollapseRec(Tail(segs), IF acc = <<>> THEN <<>> ELSE SubSeq(acc, 1, Len(acc) - 1))
         ELSE CollapseRec(Tail(segs), Append(acc, Head(segs)))

\* Path(s): drive, root flag and segments
PathParts(plat, s) ==
    LET drive  == IF HasDrive(plat, s) THEN SubSeq(s, 1, 2) ELSE <<>>
        rest   == SubSeq(s, Len(drive) + 1, Len(s))
        rooted == rest # <<>> /\ rest[1] \in Seps(plat)
    IN  [drive |-> drive, rooted |-> rooted, segs |-> DropDots(Split(rest, Seps(plat)))]

\* Path.expanduser(): only a first segment "~" of a relative path is replaced
expanduser(plat, parts) ==
    IF parts.drive = <<>> /\ ~parts.rooted /\ parts.segs # <<>> /\ Head(parts.segs) = <<"~">>
    THEN LET h == PathParts(plat, Home(plat))
         IN  [drive |-> h.drive, rooted |-> TRUE, segs |-> h.segs \o Tail(parts.segs)]
    ELSE parts

\* Path.resolve(): absolute against the working directory, ".." collapsed,
\* symbolic links followed
resolve(plat, parts) ==
    LET c    == PathParts(plat, Cwd(plat))
        abs  == IF parts.rooted
                THEN [drive |-> IF parts.drive = <<>> THEN c.drive ELSE parts.drive,
                      rooted |-> TRUE, segs |-> parts.segs]
                ELSE [drive |-> c.drive, rooted |-> TRUE, segs |-> c.segs \o parts.segs]
        segs == CollapseRec(abs.segs, <<>>)
        real == IF plat = "darwin" /\ segs # <<>> /\ Head(segs) \in DarwinPrivateLinks
                THEN <<<<"p", "r", "i", "v", "a", "t", "e">>>> \o segs
                ELSE segs
    IN  [drive |-> abs.drive, rooted |-> TRUE, segs |-> real]

\* str(Path)
path_str(plat, parts) ==
    LET sep == IF plat = "win32" THEN "\\" ELSE "/"
    IN  IF parts.segs = <<>> THEN parts.drive \o <<sep>>
        ELSE parts.drive \o JoinSegs(parts.segs, sep)

-----------------------------------------------------------------------------
(* fnmatch.fnmatch                                                         *)

\* os.path.normcase
normcase(plat, s) ==
    IF plat = "win32" THEN lower(replace_char(s, "/", "\\")) ELSE s

RECURSIVE fnmatchcase(_, _)
\* "*" matches any run of characters, "?" exactly one; the alphabet of the
\* model has no "[", so character classes do not occur
fnmatchcase(name, pat) ==
    IF pat = <<>> THEN name = <<>>
    ELSE IF Head(pat) = "*"
         THEN fnmatchcase(name, Tail(pat)) \/ (name # <<>> /\ fnmatchcase(Tail(name), pat))
    ELSE IF name = <<>> THEN FALSE
    ELSE (Head(pat) = "?" \/ Head(pat) = Head(name)) /\ fnmatchcase(Tail(name), Tail(pat))

fnmatch(plat, name, pat) == fnmatchcase(normcase(plat, name), normcase(plat, pat))

-----------------------------------------------------------------------------
(* config.py                                                               *)

DEFAULT_BLOCKED_WINDOWS ==
    << <<"C", ":", "/", "W", "i", "n", "d", "o", "w", "s", "/", "*">>,
       <<"C", ":", "/", "P", "r", "o", "g", "r", "a", "m", " ", "F", "i", "l", "e", "s", "/", "*">>,
       <<"C", ":", "/", "P", "r", "o", "g", "r", "a", "m", " ", "F", "i", "l", "e", "s", " ", "(", "x", "8", "6", ")", "/", "*">> >>

DEFAULT_BLOCKED_MACOS ==
    << <<"/", "S", "y", "s", "t", "e", "m", "/", "*">>,
       <<"/", "L", "i", "b", "r", "a", "r", "y", "/", "*">>,
       <<"/", "A", "p", "p", "l", "i", "c", "a", "t", "i", "o", "n", "s", "/", "*">>,
       <<"/", "u", "s", "r", "/", "*">>,
       <<"/", "b", "i", "n", "/", "*">>,
       <<"/", "s", "b", "i", "n", "/", "*">>,
       <<"/", "e", "t", "c", "/", "*">>,
       <<"/", "v", "a", "r", "/", "*">> >>

DEFAULT_BLOCKED_LINUX ==
    << <<"/", "u", "s", "r", "/", "*">>,
       <<"/", "b", "i", "n", "/", "*">>,
       <<"/", "s", "b", "i", "n", "/", "*">>,
       <<"/", "e", "t", "c", "/", "*">>,
       <<"/", "v", "a", "r", "/", "*">> >>

get_default_blocked(plat) ==
    IF plat = "win32" THEN DEFAULT_BLOCKED_WINDOWS
    ELSE IF plat = "darwin" THEN DEFAULT_BLOCKED_MACOS
    ELSE DEFAULT_BLOCKED_LINUX

DEFAULT_ALLOWED_WRITE ==
    << <<"~", "/", "D", "e", "s", "k", "t", "o", "p", "/", "*">>,
       <<"~", "/", "D", "o", "c", "u", "m", "e", "n", "t", "s", "/", "*">>,
       <<"$", "{", "T", "E", "M", "P", "}", "/", "*">> >>

TEMP_PLACEHOLDER == <<"$", "{", "T", "E", "M", "P", "}">>

expand_pattern(plat, pattern) ==
    LET p1 == IF startswith(pattern, <<"~">>) THEN Home(plat) \o Tail(pattern) ELSE pattern
        p2 == IF contains_sub(p1, TEMP_PLACEHOLDER)
              THEN replace_sub(p1, TEMP_PLACEHOLDER, TempDir(plat))
              ELSE p1
    IN  replace_char(p2, "\\", "/")

\* variant: the path is resolved without expanding "~"
normalize_for_match_no_expanduser(plat, path) ==
    LET resolved   == path_str(plat, resolve(plat, PathParts(plat, path)))
        normalized == replace_char(resolved, "\\", "/")
    IN  IF plat = "win32" THEN lower(normalized) ELSE normalized

normalize_for_match(plat, path) ==
    LET resolved   == path_str(plat, resolve(plat, expanduser(plat, PathParts(plat, path))))
        normalized == replace_char(resolved, "\\", "/")
    IN  IF plat = "win32" THEN lower(normalized) ELSE normalized

matches_pattern(plat, path, pattern) ==
    LET norm_path == normalize_for_match(plat, path)
        expanded  == expand_pattern(plat, pattern)
        norm_pattern == IF plat = "win32" THEN lower(expanded) ELSE expanded
    IN  fnmatch(plat, norm_path, norm_pattern)

\* any(matches_pattern(path, p) for p in patterns)
matches_any(plat, path, patterns) ==
    \E i \in 1..Len(patterns) : matches_pattern(plat, path, patterns[i])

\* SecurityConfig(mode, blocked_patterns, allowed_write_patterns)
SecurityConfig(mode, blocked, allowed_write) ==
    [mode |-> mode, blocked_patterns |-> blocked, allowed_write_patterns |-> allowed_write]

blocked_expanded(plat, cfg) ==
    [i \in 1..Len(cfg.blocked_patterns) |-> expand_pattern(plat, cfg.blocked_patterns[i])]

allowed_write_expanded(plat, cfg) ==
    [i \in 1..Len(cfg.allowed_write_patterns) |-> expand_pattern(plat, cfg.allowed_write_patterns[i])]

\* variant: the allowed-write list is consulted before the blocked list
is_path_blocked_allow_first(plat, cfg, path, for_write) ==
    IF for_write /\ cfg.mode = "sandboxed"
       /\ matches_any(plat, path, cfg.allowed_write_patterns)
    THEN FALSE
    ELSE IF matches_any(plat, path, cfg.blocked_patterns) THEN TRUE
    ELSE for_write /\ cfg.mode = "sandboxed"

\* variant: a sandboxed write outside the allowed-write list falls through
is_path_blocked_no_default_deny(plat, cfg, path, for_write) ==
    matches_any(plat, path, cfg.blocked_patterns)

\* variant: in sandboxed mode the allowed-write list is consulted for reads too
is_path_blocked_allowlist_any_intent(plat, cfg, path, for_write) ==
    IF matches_any(plat, path, cfg.blocked_patterns) THEN TRUE
    ELSE IF cfg.mode = "sandboxed"
         THEN ~matches_any(plat, path, cfg.allowed_write_patterns)
    ELSE FALSE

is_path_blocked(plat, cfg, path, for_write) ==
    IF matches_any(plat, path, cfg.blocked_patterns) THEN TRUE
    ELSE IF for_write /\ cfg.mode = "sandboxed"
         THEN ~matches_any(plat, path, cfg.allowed_write_patterns)
    ELSE FALSE

\* str.strip()
RECURSIVE lstrip(_)
lstrip(t) == IF t # <<>> /\ Head(t) \in {" ", "\t"} THEN lstrip(Tail(t)) ELSE t

RECURSIVE rstrip(_)
rstrip(t) ==
    IF t # <<>> /\ t[Len(t)] \in {" ", "\t"} THEN rstrip(SubSeq(t, 1, Len(t) - 1)) ELSE t

str_strip(t) == lstrip(rstrip(t))

\* [p.strip() for p in value.split(";") if p.strip()]
split_patterns(value) ==
    LET parts    == SplitRec(value, {";"}, <<>>, <<>>)
        stripped == [i \in 1..Len(parts) |-> str_strip(parts[i])]
        NonEmpty(t) == t # <<>>
    IN  SelectSeq(stripped, NonEmpty)

\* os.environ.get(key, default); an unset variable is None in the record
environ_get(environ, key, default) ==
    IF environ[key] = None THEN default ELSE environ[key].value

\* variant: configured blocked patterns take the place of the defaults
load_config_extras_replace(plat, environ) ==
    LET mode_str == lower(environ_get(environ, "ARCHICAD_MCP_SECURITY",
                                      <<"u", "n", "r", "e", "s", "t", "r", "i", "c", "t", "e", "d">>))
        mode == IF mode_str = <<"s", "a", "n", "d", "b", "o", "x", "e", "d">>
                THEN "sandboxed" ELSE "unrestricted"
        extra_blocked == environ_get(environ, "ARCHICAD_MCP_BLOCKED_PATHS", <<>>)
        blocked == IF extra_blocked # <<>> THEN split_patterns(extra_blocked)
                   ELSE get_default_blocked(plat)
        allowed_write_env == environ_get(environ, "ARCHICAD_MCP_ALLOWED_WRITE_PATHS", <<>>)
        allowed_write == IF allowed_write_env # <<>> THEN split_patterns(allowed_write_env)
                         ELSE DEFAULT_ALLOWED_WRITE
    IN  SecurityConfig(mode, blocked, allowed_write)

\* variant: the selector is compared as written
load_config_exact_case(plat, environ) ==
    LET mode_str == environ_get(environ, "ARCHICAD_MCP_SECURITY",
                                <<"u", "n", "r", "e", "s", "t", "r", "i", "c", "t", "e", "d">>)
        mode == IF mode_str = <<"s", "a", "n", "d", "b", "o", "x", "e", "d">>
                THEN "sandboxed" ELSE "unrestricted"
        extra_blocked == environ_get(environ, "ARCHICAD_MCP_BLOCKED_PATHS", <<>>)
        blocked == get_default_blocked(plat)
                   \o (IF extra_blocked # <<>> THEN split_patterns(extra_blocked) ELSE <<>>)
        allowed_write_env == environ_get(environ, "ARCHICAD_MCP_ALLOWED_WRITE_PATHS", <<>>)
        allowed_write == IF allowed_write_env # <<>> THEN split_patterns(allowed_write_env)
                         ELSE DEFAULT_ALLOWED_WRITE
    IN  SecurityConfig(mode, blocked, allowed_write)

load_config(plat, environ) ==
    LET mode_str == lower(environ_get(environ, "ARCHICAD_MCP_SECURITY",
                                      <<"u", "n", "r", "e", "s", "t", "r", "i", "c", "t", "e", "d">>))
        mode == IF mode_str = <<"s", "a", "n", "d", "b", "o", "x", "e", "d">>
                THEN "sandboxed" ELSE "unrestricted"
        extra_blocked == environ_get(environ, "ARCHICAD_MCP_BLOCKED_PATHS", <<>>)
        blocked == get_default_blocked(plat)
                   \o (IF extra_blocked # <<>> THEN split_patterns(extra_blocked) ELSE <<>>)
        allowed_write_env == environ_get(environ, "ARCHICAD_MCP_ALLOWED_WRITE_PATHS", <<>>)
        allowed_write == IF allowed_write_env # <<>> THEN split_patterns(allowed_write_env)
                         ELSE DEFAULT_ALLOWED_WRITE
    IN  SecurityConfig(mode, blocked, allowed_write)

\* no variable of the program set
EmptyEnviron ==
    [ARCHICAD_MCP_SECURITY |-> None, ARCHICAD_MCP_BLOCKED_PATHS |-> None,
     ARCHICAD_MCP_ALLOWED_WRITE_PATHS |-> None]

-----------------------------------------------------------------------------
(* Inputs of the file-access model                                         *)

\* number of distinct file names scripts pass to open
MaxPaths == 5

PathList ==
    << <<"/", "e", "t", "c", "/", "p", "a", "s", "s", "w", "d">>,
       <<"/", "t", "m", "p", "/", "x", ".", "t", "x", "t">>,
       <<"~", "/", "D", "e", "s", "k", "t", "o", "p", "/", "o">>,
       <<"C", ":", "\\", "W", "i", "n", "d", "o", "w", "s", "\\", "w">>,
       <<"/", "u", "s", "r", "/", ".", ".", "/", "e", "t", "c", "/", "p", "a", "s", "s", "w", "d">>,
       <<"o", ".", "t", "x", "t">>,
       <<"/", "h", "o", "m", "e", "/", "u", "/", "D", "e", "s", "k", "t", "o", "p", "/", "o">>,
       <<"c", ":", "/", "w", "i", "n", "d", "o", "w", "s", "/", "w">>,
       <<"/", "e", "t", "c">>,
       <<"/", "E", "T", "C", "/", "p", "a", "s", "s", "w", "d">> >>

Paths == {PathList[i] : i \in 1..Min(MaxPaths, Len(PathList))}

OpenModes == {<<"r", "b">>, <<"w">>, <<"r", "+">>}

SecurityModes == {"unrestricted", "sandboxed"}

\* allowed-write lists of the loaded policy
AllowedWriteChoices ==
    { DEFAULT_ALLOWED_WRITE,
      <<>>,
      << <<"/", "e", "t", "c", "/", "*">>, <<"C", ":", "/", "W", "i", "n", "d", "o", "w", "s", "/", "*">> >> }

\* the policies the process can have loaded at start
Configs(plat) ==
    { SecurityConfig(m, get_default_blocked(plat), a) :
        m \in SecurityModes, a \in AllowedWriteChoices }

-----------------------------------------------------------------------------
(* executor.py: file access                                                *)

\* names bound to modules in every namespace
ALLOWED_MODULES ==
    {"json", "csv", "math", "re", "datetime", "pathlib", "itertools", "functools",
     "collections", "statistics", "copy", "io", "Path", "openpyxl"}

WRITE_MODE_CHARS == {"w", "x", "a", "+"}

_is_write_mode(mode) == \E i \in 1..Len(mode) : mode[i] \in WRITE_MODE_CHARS

\* reading a cached_property: the value computed at the first read
CachedRead(cache, field, value) == IF cache[field] = None THEN PyList(value) ELSE cache[field]

\* an underlying open() call; policy_blocks is what the policy says about it
OpenCall(route, file, mode) ==
    [kind |-> "open", route |-> route, file |-> file, mode |-> mode,
     policy_blocks |-> is_path_blocked(platform, config, file, _is_write_mode(mode))]

\* variant: the file is opened before the policy is asked
safe_open_opens_first(file, mode) ==
    LET is_write == _is_write_mode(mode)
        blocked  == is_path_blocked(platform, config, file, is_write)
        allowed_list == CachedRead(expanded_cache, "allowed", allowed_write_expanded(platform, config))
        blocked_list == CachedRead(expanded_cache, "blocked", blocked_expanded(platform, config))
    IN  /\ lastCheck' = [kind |-> "check", path |-> file, for_write |-> is_write, blocked |-> blocked]
        /\ lastOpen' = OpenCall("open", file, mode)
        /\ IF blocked
           THEN IF is_write /\ config.mode = "sandboxed"
                THEN /\ lastError' = [kind |-> "PermissionError", text |-> "Write access denied",
                                      path |-> file, listed |-> allowed_list.items]
                     /\ expanded_cache' = [expanded_cache EXCEPT !["allowed"] = allowed_list]
                ELSE /\ lastError' = [kind |-> "PermissionError", text |-> "Access denied",
                                      path |-> file, listed |-> blocked_list.items]
                     /\ expanded_cache' = [expanded_cache EXCEPT !["blocked"] = blocked_list]
           ELSE /\ lastError' = None
                /\ UNCHANGED expanded_cache
        /\ UNCHANGED <<platform, config, xvars, connections, call>>

\* the namespace name `open`: safe_open(file, mode)
safe_open(file, mode) ==
    LET is_write == _is_write_mode(mode)
        blocked  == is_path_blocked(platform, config, file, is_write)
        allowed_list == CachedRead(expanded_cache, "allowed", allowed_write_expanded(platform, config))
        blocked_list == CachedRead(expanded_cache, "blocked", blocked_expanded(platform, config))
    IN  /\ lastCheck' = [kind |-> "check", path |-> file, for_write |-> is_write, blocked |-> blocked]
        /\ IF blocked
           THEN /\ lastOpen' = None
                /\ IF is_write /\ config.mode = "sandboxed"
                   THEN /\ lastError' = [kind |-> "PermissionError", text |-> "Write access denied",
                                         path |-> file, listed |-> allowed_list.items]
                        /\ expanded_cache' = [expanded_cache EXCEPT !["allowed"] = allowed_list]
                   ELSE /\ lastError' = [kind |-> "PermissionError", text |-> "Access denied",
                                         path |-> file, listed |-> blocked_list.items]
                        /\ expanded_cache' = [expanded_cache EXCEPT !["blocked"] = blocked_list]
           ELSE /\ lastOpen' = OpenCall("open", file, mode)
                /\ lastError' = None
                /\ UNCHANGED expanded_cache
        /\ UNCHANGED <<platform, config, xvars, connections, call>>

\* a call that reaches the underlying open() without passing safe_open
RawOpen(route, file, mode) ==
    /\ lastCheck' = None
    /\ lastOpen' = OpenCall(route, file, mode)
    /\ lastError' = None
    /\ UNCHANGED <<platform, config, expanded_cache, xvars, connections, call>>

\* the namespace holds the module io in both modes: io.open is the built-in open
io_open(file, mode) ==
    /\ "io" \in ALLOWED_MODULES
    /\ RawOpen("io.open", file, mode)

\* the namespace holds Path and pathlib in both modes: Path(file).open(mode),
\* read_text, write_text
Path_open(file, mode) ==
    /\ "Path" \in ALLOWED_MODULES
    /\ RawOpen("Path.open", file, mode)

\* unrestricted mode: namespace["__builtins__"] is builtins.__dict__, which holds the real open
builtins_open(file, mode) ==
    /\ config.mode = "unrestricted"
    /\ RawOpen("__builtins__.open", file, mode)

\* the closure of safe_open holds the policy object itself, a dataclass that is
\* not frozen and whose pattern lists are mutable: a script statement such as
\* open.__closure__[0].cell_contents.blocked_patterns.clear() changes it
ScriptMutateConfig ==
    /\ \E c \in { [config EXCEPT !.mode = "unrestricted"],
                  [config EXCEPT !.blocked_patterns = <<>>] } :
          /\ c # config
          /\ config' = c
    /\ lastCheck' = None
    /\ lastOpen' = None
    /\ lastError' = None
    /\ UNCHANGED <<platform, expanded_cache, xvars, connections, call>>

\* server.py lifespan: the tool description reads the expanded pattern lists,
\* which caches them before the first script runs
format_file_access_docs(plat, cfg) ==
    [blocked |-> PyList(blocked_expanded(plat, cfg)),
     allowed |-> IF cfg.mode = "sandboxed" THEN PyList(allowed_write_expanded(plat, cfg))
                 ELSE None]

InitPolicy ==
    /\ platform \in Platforms
    /\ config \in Configs(platform)
    /\ expanded_cache = format_file_access_docs(platform, config)
    /\ lastCheck = None
    /\ lastOpen = None
    /\ lastError = None

-----------------------------------------------------------------------------
(* Scripts: a script is a sequence of source lines, one statement per line *)

Line(stmt, arg) == [indent |-> 0, stmt |-> stmt, arg |-> arg]

\* str.strip() of a source line
strip(line) == [line EXCEPT !.indent = 0]

\* longest script of the single-invocation model
MaxLines == 3

\* longest script and number of invocations of the concurrent model
MaxConcLines == 2
NumRuns == 2

ShortList == PyList(<<1, 2>>)

\* exception names a script raises by name
RaiseKinds == {"ValueError", "SyntaxError", "TimeoutError", "SystemExit"}

\* module names a script imports, names it references, and attributes it
\* reads from the module pathlib
ImportNames == {"json", "os"}
RefNames == {"eval"}
AttrNames == {"os"}

\*   print("a")                 result = v           await archicad.tapir(...)
\*   try: await archicad.tapir(...)   followed by    except: pass
\*   raise K("x")               return               if True   (malformed)
\*   import m                   x = name             x = pathlib.attr
\*   pathlib.sys.stdout.write(text)
ScriptLines ==
    {Line("print", PyStr("a")), Line("stdout_write", PyStr("b")),
     Line("bind", PyInt(7)), Line("bind", ShortList),
     Line("await", None), Line("try_await", None), Line("except_pass", None),
     Line("return", None), Line("bad", None)}
    \cup {Line("raise", PyStr(k)) : k \in RaiseKinds}
    \cup {Line("import", PyStr(m)) : m \in ImportNames}
    \cup {Line("ref", PyStr(n)) : n \in RefNames}
    \cup {Line("attr", PyStr(a)) : a \in AttrNames}

\* archicad.command(name) or archicad.tapir(name) as written in a script
RemoteCall(via, name) == [kind |-> "call", via |-> via, name |-> name]

\* command names scripts pass: without and with the prefix of built-in commands
CommandNames ==
    { <<"G", "e", "t", "X">>, <<"A", "P", "I", ".", "G", "e", "t", "X">> }

\* scripts that call the instance:
\*   await archicad.command(n)   await archicad.tapir(n)    (also inside try)
\*   asyncio.ensure_future(bg()) where bg awaits archicad.tapir("GetX") later
RemoteLines ==
    {Line("await", RemoteCall(via, n)) : via \in {"command", "tapir"}, n \in CommandNames}
    \cup {Line("try_await", RemoteCall("tapir", <<"G", "e", "t", "X">>)),
          Line("except_pass", None), Line("spawn", None), Line("bind", PyInt(7))}

\* scripts that touch what the namespaces have in common:
\*   __builtins__["getattr"] = hasattr      x = getattr
SharedLines ==
    {Line("set_builtin", PyStr("getattr")), Line("ref", PyStr("getattr")),
     Line("await", None), Line("return", None)}

ConcurrentLines ==
    {Line("print", PyStr("a")), Line("bind", PyInt(7)), Line("await", None), Line("return", None)}

ScriptsOver(lines, n) == UNION {[1..k -> lines] : k \in 1..n}

TimeoutChoices == {None, PyInt(1), PyInt(30)}

-----------------------------------------------------------------------------
(* executor.py: names visible to a script                                  *)

SCRIPT_BUILTINS ==
    {"True", "False", "None", "bool", "int", "float", "str", "bytes", "list", "tuple",
     "dict", "set", "frozenset", "abs", "all", "any", "bin", "chr", "divmod", "enumerate",
     "filter", "format", "hasattr", "hash", "hex", "isinstance", "issubclass", "iter",
     "len", "map", "max", "min", "next", "oct", "ord", "pow", "range", "repr", "reversed",
     "round", "slice", "sorted", "sum", "zip", "Exception", "ValueError", "TypeError",
     "KeyError", "IndexError", "AttributeError", "RuntimeError", "StopIteration",
     "FileNotFoundError", "PermissionError", "IOError", "__import__"}

\* builtins.__dict__: the names of SCRIPT_BUILTINS and the rest of the built-ins
FULL_BUILTINS ==
    SCRIPT_BUILTINS \cup {"globals", "open", "print", "exec", "eval", "compile", "getattr",
                          "BaseException", "SyntaxError", "TimeoutError", "SystemExit",
                          "KeyboardInterrupt", "NameError", "OSError"}

\* namespace["__builtins__"] chosen by _build_namespace
Builtins(mode) == IF mode = "unrestricted" THEN FULL_BUILTINS ELSE script_builtins

\* the keys _build_namespace puts into the namespace itself
NamespaceNames == {"archicad", "port", "result", "print", "open"} \cup ALLOWED_MODULES

\* the entries of ALLOWED_MODULES that are modules (Path is a class)
_IMPORTABLE_MODULES == ALLOWED_MODULES \ {"Path"}

\* text of the ImportError raised by _safe_import: the name and the sorted list
NotAvailable(name) ==
    [kind |-> "not_available", name |-> name, available |-> _IMPORTABLE_MODULES]

\* _safe_import(name): None when the import goes through, else the error text
_safe_import(name) ==
    IF name \notin _IMPORTABLE_MODULES THEN NotAvailable(name) ELSE None

\* modules the module pathlib holds as attributes (it imports them itself)
PathlibAttrs == {"os", "sys", "io", "re"}

\* classes that derive from BaseException but not from Exception
NonExceptionKinds == {"SystemExit", "KeyboardInterrupt", "CancelledError", "GeneratorExit"}

-----------------------------------------------------------------------------
(* executor.py: wrapping, compiling, formatting                            *)

BlankLine == [indent |-> 0, stmt |-> "blank", arg |-> None]

WrapperLine(indent, stmt) == [indent |-> indent, stmt |-> stmt, arg |-> None]

_wrap_script(script) ==
    LET indented == [k \in 1..Len(script) |->
                        IF script[k].stmt = "blank" THEN script[k]
                        ELSE [script[k] EXCEPT !.indent = @ + 4]]
    IN  <<BlankLine, WrapperLine(0, "async_def"), WrapperLine(4, "result_none")>>
        \o indented
        \o <<WrapperLine(4, "store_result"), BlankLine, WrapperLine(0, "call_main")>>

\* lines at which the parser rejects the source
ParseErrorLines(w) ==
    {k \in 1..Len(w) : w[k].stmt = "bad"}
    \cup {k \in 2..Len(w) : w[k - 1].stmt = "try_await" /\ w[k].stmt # "except_pass"}
    \cup {k \in 2..Len(w) : w[k].stmt = "except_pass"
                            /\ w[k - 1].stmt \notin {"try_await", "except_pass"}}

\* lines the code generator rejects once the source parses: a bare except
\* that is not the last handler of its try
HandlerErrorLines(w) ==
    {k \in 2..(Len(w) - 1) : w[k - 1].stmt = "try_await" /\ w[k].stmt = "except_pass"
                             /\ w[k + 1].stmt = "except_pass"}

\* compile(wrapped, "<script>", "exec"): None, or the SyntaxError raised
compile(w) ==
    LET errs == IF ParseErrorLines(w) # {} THEN ParseErrorLines(w) ELSE HandlerErrorLines(w)
    IN  IF errs = {} THEN None
        ELSE LET first == CHOOSE k \in errs : \A j \in errs : k <= j
             IN  [kind |-> "exception", type |-> "SyntaxError", msg |-> "invalid syntax",
                  lineno |-> PyInt(first), tb_lineno |-> None]

\* an exception raised while the script body runs at wrapped line tb_lineno
RuntimeExc(type, msg, tb_lineno) ==
    [kind |-> "exception", type |-> type, msg |-> msg, lineno |-> None,
     tb_lineno |-> PyInt(tb_lineno)]

MAX_RESULT_ITEMS == 500
SAMPLE_SIZE == 50

\* variant: a list of exactly MAX_RESULT_ITEMS items is summarised too
_process_result_at_cap(result) ==
    IF result.kind = "list" /\ Len(result.items) >= MAX_RESULT_ITEMS
    THEN [kind |-> "dict", total |-> Len(result.items),
          sample |-> SubSeq(result.items, 1, Min(SAMPLE_SIZE, Len(result.items))),
          truncated |-> TRUE, warning |-> <<Len(result.items), SAMPLE_SIZE>>]
    ELSE result

_process_result(result) ==
    IF result.kind = "list" /\ Len(result.items) > MAX_RESULT_ITEMS
    THEN [kind |-> "dict", total |-> Len(result.items),
          sample |-> SubSeq(result.items, 1, Min(SAMPLE_SIZE, Len(result.items))),
          truncated |-> TRUE, warning |-> <<Len(result.items), SAMPLE_SIZE>>]
    ELSE result

\* _format_error(exc, script): the text of the runtime failure
_format_error(exc, script) ==
    LET script_line == IF exc.tb_lineno # None THEN PyInt(exc.tb_lineno.value - 3) ELSE None
    IN  IF script_line # None /\ script_line.value # 0 /\ script_line.value > 0
        THEN IF 0 < script_line.value /\ script_line.value <= Len(script)
             THEN [kind |-> "runtime", line |-> script_line, etype |-> exc.type,
                   msg |-> exc.msg, source |-> strip(script[script_line.value])]
             ELSE [kind |-> "runtime", line |-> script_line, etype |-> exc.type,
                   msg |-> exc.msg, source |-> None]
        ELSE [kind |-> "runtime", line |-> None, etype |-> exc.type,
              msg |-> exc.msg, source |-> None]

\* ScriptResult(success, result, stdout, error); execution_time_ms is a clock
\* reading and is left out
ScriptResult(success, result, stdout, error) ==
    [kind |-> "ScriptResult", success |-> success, result |-> result, stdout |-> stdout, error |-> error]

-----------------------------------------------------------------------------
(* executor.py: ScriptExecutor.run                                         *)

\* variant: one StringIO object serves every invocation
SharedBuffer(i) == 1

\* stdout_capture = io.StringIO(): a new object for each invocation
NewBuffer(i) == i

\* namespace = {...}: a new dict for each invocation
NewNamespace(i) == i

\* the frame of an invocation that has not been called yet
PendingFrame ==
    [status |-> "Pending", script |-> <<>>, timeout |-> None, timer |-> "none",
     lineno |-> 0, local_result |-> None, namespace |-> 0, stdout_capture |-> 0,
     builtins |-> "", task |-> None, result |-> None, raised |-> None,
     \* history kept for stating properties
     printed |-> <<>>, produced |-> <<>>, stored |-> None, raised_at |-> None,
     printed_at_timeout |-> <<>>, overlapped |-> FALSE, obtained |-> {},
     \* tasks the script has left running, and the log of the calls of
     \* execute made for the invocation
     detached |-> 0, executes |-> <<>>]

InFlight(f) == f.status \in {"Scheduled", "Running", "Suspended", "TaskDone"}

\* the event loop runs one task at a time
LoopFree == \A j \in DOMAIN runs : runs[j].status # "Running"

Wrapped(f) == _wrap_script(f.script)

CurrentLine(f) == Wrapped(f)[f.lineno]

\* wrapped line number of the first line of the script body
BodyStart(w) == (CHOOSE k \in 1..Len(w) : w[k].stmt = "result_none") + 1

\* variant: the timed-out result carries the value bound so far
TimedOutResult_keeps_value(f, out) ==
    ScriptResult(FALSE, f.local_result, out, [kind |-> "timeout", seconds |-> f.timeout])

\* ScriptResult of the `except TimeoutError` branch
TimedOutResult(f, out) ==
    ScriptResult(FALSE, None, out, [kind |-> "timeout", seconds |-> f.timeout])

\* ScriptResult of the `except SyntaxError` branch
SyntaxErrorResult(f, e, out) ==
    ScriptResult(FALSE, None, out, [kind |-> "syntax", lineno |-> e.lineno, msg |-> e.msg])

\* ScriptResult of the `except Exception` branch
RuntimeErrorResult(f, e, out) ==
    ScriptResult(FALSE, None, out, _format_error(e, f.script))

\* ScriptResult of the normal path
SuccessResult(f, value, out) ==
    ScriptResult(TRUE, _process_result(value), out, None)

\* what run does with the outcome of the script: the try/except ladder.
\* in_wait_for: the outcome came out of asyncio.wait_for
Conclude(f, outcome, in_wait_for, ns, bufs) ==
    LET out == bufs[f.stdout_capture]
        e   == outcome.exc
    IN  IF outcome.kind = "returned"
        THEN [f EXCEPT !.status = "Returned", !.result = SuccessResult(f, ns[f.namespace], out)]
        ELSE IF outcome.kind = "cancelled"
        THEN [f EXCEPT !.status = "Returned", !.result = TimedOutResult(f, out)]
        ELSE IF in_wait_for /\ e.type = "TimeoutError"
        THEN [f EXCEPT !.status = "Returned", !.result = TimedOutResult(f, out)]
        ELSE IF e.type = "SyntaxError"
        THEN [f EXCEPT !.status = "Returned", !.result = SyntaxErrorResult(f, e, out)]
        ELSE IF e.type \notin NonExceptionKinds
        THEN [f EXCEPT !.status = "Returned", !.result = RuntimeErrorResult(f, e, out)]
        ELSE [f EXCEPT !.status = "Raised", !.raised = e]

Returned == [kind |-> "returned", exc |-> None]
Cancelled == [kind |-> "cancelled", exc |-> None]
Raised(e) == [kind |-> "raised", exc |-> e]

\* the script coroutine ends: `await coro` continues in run at once; under
\* wait_for the task is done and run continues when the loop schedules it
TaskEnds(f, outcome, ns, bufs) ==
    IF f.timeout = None
    THEN Conclude(f, outcome, FALSE, ns, bufs)
    ELSE [f EXCEPT !.status = "TaskDone", !.task = outcome]

\* the script body starts: wrapper line `result = None`
EnterBody(f) ==
    [f EXCEPT !.status = "Running", !.lineno = BodyStart(Wrapped(f)), !.local_result = None]

\* run(script, connection, timeout_seconds, config) up to its first suspension
Start(i, scripts) ==
    /\ runs[i].status = "Pending"
    /\ LoopFree
    /\ \E script \in scripts, t \in TimeoutChoices :
          LET others == {j \in DOMAIN runs : j # i /\ InFlight(runs[j])}
              f0   == [runs[i] EXCEPT !.script = script, !.timeout = t,
                                      !.stdout_capture = NewBuffer(i),
                                      !.namespace = NewNamespace(i),
                                      !.builtins = config.mode,
                                      !.overlapped = (others # {})]
              bufs == [buffers EXCEPT ![NewBuffer(i)] = <<>>]
              ns   == [namespaces EXCEPT ![NewNamespace(i)] = None]
              err  == compile(_wrap_script(script))
              f1   == IF err # None THEN Conclude(f0, Raised(err), FALSE, ns, bufs)
                      ELSE IF t = None THEN EnterBody(f0)
                      ELSE [f0 EXCEPT !.status = "Scheduled", !.timer = "armed"]
          IN  /\ buffers' = bufs
              /\ namespaces' = ns
              /\ runs' = [j \in DOMAIN runs |->
                            IF j = i THEN f1
                            ELSE IF j \in others THEN [runs[j] EXCEPT !.overlapped = TRUE]
                            ELSE runs[j]]
    /\ UNCHANGED <<pvars, call, connections, shared_stdout, script_builtins, connection>>

\* the task created by wait_for gets the loop
TaskStarts(i) ==
    /\ runs[i].status = "Scheduled"
    /\ LoopFree
    /\ runs' = [runs EXCEPT ![i] = EnterBody(@)]
    /\ UNCHANGED <<pvars, call, connections, buffers, namespaces, shared_stdout, script_builtins, connection>>

\* print(text): the namespace's print writes to this invocation's buffer
ExecPrint(i) ==
    LET f == runs[i] IN
    /\ f.status = "Running"
    /\ CurrentLine(f).stmt = "print"
    /\ buffers' = [buffers EXCEPT ![f.stdout_capture] = Append(@, CurrentLine(f).arg.value)]
    /\ runs' = [runs EXCEPT ![i] = [f EXCEPT !.lineno = @ + 1,
                                             !.printed = Append(@, CurrentLine(f).arg.value),
                                             !.produced = Append(@, CurrentLine(f).arg.value)]]
    /\ UNCHANGED <<pvars, call, connections, namespaces, shared_stdout, script_builtins, connection>>

\* pathlib.sys.stdout.write(text): the stream object of the process is reached
\* through the module in the namespace; only the name print is rebound
ExecStdoutWrite(i) ==
    LET f == runs[i] IN
    /\ f.status = "Running"
    /\ CurrentLine(f).stmt = "stdout_write"
    /\ shared_stdout' = Append(shared_stdout, CurrentLine(f).arg.value)
    /\ runs' = [runs EXCEPT ![i] = [f EXCEPT !.lineno = @ + 1,
                                             !.produced = Append(@, CurrentLine(f).arg.value)]]
    /\ UNCHANGED <<pvars, call, connections, buffers, namespaces, script_builtins, connection>>

\* result = value: binds the local of __script_main__
ExecBind(i) ==
    LET f == runs[i] IN
    /\ f.status = "Running"
    /\ CurrentLine(f).stmt = "bind"
    /\ runs' = [runs EXCEPT ![i] = [f EXCEPT !.lineno = @ + 1,
                                             !.local_result = CurrentLine(f).arg]]
    /\ UNCHANGED <<pvars, call, connections, buffers, namespaces, shared_stdout, script_builtins, connection>>

\* the line executed after the await of the current line
AfterAwait(f) == IF CurrentLine(f).stmt = "try_await" THEN f.lineno + 2 ELSE f.lineno + 1

API_PREFIX == <<"A", "P", "I", ".">>

\* ArchicadAPI.command(name): the name handed to execute
command(name) == IF ~startswith(name, API_PREFIX) THEN API_PREFIX \o name ELSE name

\* ArchicadAPI.tapir(name): the name handed to execute
tapir(name) == name

\* ArchicadConnection.execute(command): routing by the prefix; the add-on
\* handler raises before any request when the add-on is known to be missing
execute(cmd, tapir_available) ==
    IF startswith(cmd, API_PREFIX)
    THEN [handler |-> "_execute_builtin", requests |-> 1]
    ELSE IF tapir_available = PyBool(FALSE)
    THEN [handler |-> "_execute_tapir", requests |-> 0]
    ELSE [handler |-> "_execute_tapir", requests |-> 1]

\* answers of the instance to an add-on request: data of the response
\*   succeeded, error (None or a dict with code and message), and the
\*   "error" dict inside addOnCommandResponse (None when absent)
Response(succeeded, error, addon_error) ==
    [succeeded |-> succeeded, error |-> error, addon_error |-> addon_error]

ErrorDict(code, message) == [kind |-> "dict", code |-> code, message |-> message]

NOT_REGISTERED == <<"n", "o", "t", " ", "r", "e", "g", "i", "s", "t", "e", "r", "e", "d">>

\* variant: the message is looked at before the code
_execute_tapir_response_message_first(data, tapir_available) ==
    IF ~data.succeeded
    THEN LET error_msg  == IF data.error.kind = "dict" THEN data.error.message ELSE <<>>
             error_code == IF data.error.kind = "dict" THEN data.error.code ELSE None
         IN  IF contains_sub(lower(error_msg), NOT_REGISTERED)
             THEN [raises |-> "TapirNotAvailableError", code |-> None,
                   _tapir_available |-> PyBool(FALSE)]
             ELSE IF error_code = PyInt(4010)
             THEN [raises |-> "CommandError", code |-> error_code, unknown_command |-> TRUE,
                   _tapir_available |-> PyBool(TRUE)]
             ELSE [raises |-> "CommandError", code |-> error_code, unknown_command |-> FALSE,
                   _tapir_available |-> tapir_available]
    ELSE IF data.addon_error # None
    THEN [raises |-> "CommandError", code |-> data.addon_error.code, unknown_command |-> FALSE,
          _tapir_available |-> tapir_available]
    ELSE [raises |-> None, _tapir_available |-> PyBool(TRUE)]

\* _execute_tapir from the point where the response has arrived: what it
\* raises (None: it returns) and the add-on record it leaves
_execute_tapir_response(data, tapir_available) ==
    IF ~data.succeeded
    THEN LET error_msg  == IF data.error.kind = "dict" THEN data.error.message ELSE <<>>
             error_code == IF data.error.kind = "dict" THEN data.error.code ELSE None
             is_addon_missing == error_code # PyInt(4010)
                                 /\ contains_sub(lower(error_msg), NOT_REGISTERED)
         IN  IF is_addon_missing
             THEN [raises |-> "TapirNotAvailableError", code |-> None,
                   _tapir_available |-> PyBool(FALSE)]
             ELSE IF error_code = PyInt(4010)
             THEN [raises |-> "CommandError", code |-> error_code, unknown_command |-> TRUE,
                   _tapir_available |-> PyBool(TRUE)]
             ELSE [raises |-> "CommandError", code |-> error_code, unknown_command |-> FALSE,
                   _tapir_available |-> tapir_available]
    ELSE IF data.addon_error # None
    THEN [raises |-> "CommandError", code |-> data.addon_error.code, unknown_command |-> FALSE,
          _tapir_available |-> tapir_available]
    ELSE [raises |-> None, _tapir_available |-> PyBool(TRUE)]

\* a successful answer, and the answer of an instance without the add-on
SucceededResponse == Response(TRUE, None, None)
NotRegisteredResponse ==
    Response(FALSE,
             ErrorDict(PyInt(8000), <<"A", "d", "d", "O", "n", " ", "i", "s", " "
                                      >> \o NOT_REGISTERED),
             None)

\* the call written on a line; a line without a name is archicad.tapir("GetX")
CallOf(line) ==
    IF line.arg.kind = "call" THEN line.arg ELSE RemoteCall("tapir", <<"G", "e", "t", "X">>)

\* the entry logged for one call of execute
Executed(c, avail, late) ==
    LET cmd == IF c.via = "command" THEN command(c.name) ELSE tapir(c.name)
        x   == execute(cmd, avail)
    IN  [via |-> c.via, name |-> c.name, command |-> cmd, handler |-> x.handler,
         requests |-> x.requests, after_return |-> late]

\* await archicad.tapir(...) / await archicad.command(...): one call of
\* execute; the invocation is suspended on the request, or the call raises
\* at once when no request is made
ExecAwait(i) ==
    LET f     == runs[i]
        entry == Executed(CallOf(CurrentLine(f)), connection._tapir_available, FALSE)
        f1    == [f EXCEPT !.executes = Append(@, entry)]
        e     == RuntimeExc("TapirNotAvailableError", "not installed", f.lineno)
    IN
    /\ f.status = "Running"
    /\ CurrentLine(f).stmt \in {"await", "try_await"}
    /\ runs' = [runs EXCEPT ![i] =
                  IF entry.requests = 1
                  THEN [f1 EXCEPT !.status = "Suspended"]
                  ELSE IF CurrentLine(f).stmt = "try_await"
                  THEN [f1 EXCEPT !.lineno = AfterAwait(f)]
                  ELSE TaskEnds([f1 EXCEPT !.raised_at = e], Raised(e), namespaces, buffers)]
    /\ UNCHANGED <<pvars, call, connections, buffers, namespaces, shared_stdout, script_builtins, connection>>

\* asyncio.ensure_future(bg()): the script leaves a task on the event loop
ExecSpawn(i) ==
    LET f == runs[i] IN
    /\ f.status = "Running"
    /\ CurrentLine(f).stmt = "spawn"
    /\ runs' = [runs EXCEPT ![i] = [f EXCEPT !.lineno = @ + 1, !.detached = @ + 1]]
    /\ UNCHANGED <<pvars, call, connections, buffers, namespaces, shared_stdout, script_builtins, connection>>

\* a task the script left on the loop reaches its await archicad.tapir("GetX");
\* nothing in run waits for it or cancels it
DetachedTaskCalls(i) ==
    LET f     == runs[i]
        late  == f.status \in {"Returned", "Raised"}
        entry == Executed(RemoteCall("tapir", <<"G", "e", "t", "X">>),
                          connection._tapir_available, late)
    IN
    /\ f.detached > 0
    /\ LoopFree
    /\ runs' = [runs EXCEPT ![i] = [f EXCEPT !.detached = @ - 1,
                                             !.executes = Append(@, entry)]]
    /\ UNCHANGED <<pvars, call, connections, buffers, namespaces, shared_stdout, script_builtins, connection>>

\* the instance answers that the add-on is not registered: the connection
\* remembers it and TapirNotAvailableError is raised
RemoteRaisesNotRegistered(i) ==
    LET f == runs[i]
        x == _execute_tapir_response(NotRegisteredResponse, connection._tapir_available)
        e == RuntimeExc(x.raises, "not installed", f.lineno)
    IN
    /\ f.status = "Suspended"
    /\ LoopFree
    /\ f.executes[Len(f.executes)].handler = "_execute_tapir"
    /\ connection' = [connection EXCEPT !._tapir_available = x._tapir_available]
    /\ runs' = [runs EXCEPT ![i] =
                  IF CurrentLine(f).stmt = "try_await"
                  THEN [f EXCEPT !.status = "Running", !.lineno = AfterAwait(f)]
                  ELSE TaskEnds([f EXCEPT !.raised_at = e], Raised(e), namespaces, buffers)]
    /\ UNCHANGED <<pvars, call, connections, buffers, namespaces, shared_stdout, script_builtins>>

\* the remote call answers
RemoteReturns(i) ==
    LET f == runs[i] IN
    /\ f.status = "Suspended"
    /\ LoopFree
    /\ connection' =
           IF f.executes[Len(f.executes)].handler = "_execute_tapir"
           THEN [connection EXCEPT !._tapir_available =
                    _execute_tapir_response(SucceededResponse, @)._tapir_available]
           ELSE connection
    /\ runs' = [runs EXCEPT ![i] = [f EXCEPT !.status = "Running", !.lineno = AfterAwait(f)]]
    /\ UNCHANGED <<pvars, call, connections, buffers, namespaces, shared_stdout, script_builtins>>

\* the remote call raises (ArchicadConnectionError, CommandError, ...)
RemoteRaises(i) ==
    LET f == runs[i]
        e == RuntimeExc("CommandError", "remote", f.lineno)
    IN
    /\ f.status = "Suspended"
    /\ LoopFree
    /\ runs' = [runs EXCEPT ![i] =
                  IF CurrentLine(f).stmt = "try_await"
                  THEN [f EXCEPT !.status = "Running", !.lineno = AfterAwait(f)]
                  ELSE TaskEnds([f EXCEPT !.raised_at = e], Raised(e), namespaces, buffers)]
    /\ UNCHANGED <<pvars, call, connections, buffers, namespaces, shared_stdout, script_builtins, connection>>

\* the timeout elapses while the script is suspended: wait_for cancels the
\* task, CancelledError is thrown at the await; a bare except swallows it
TimeoutFires(i) ==
    LET f == [runs[i] EXCEPT !.timer = "fired", !.printed_at_timeout = runs[i].printed] IN
    /\ runs[i].status = "Suspended"
    /\ runs[i].timer = "armed"
    /\ LoopFree
    /\ runs' = [runs EXCEPT ![i] =
                  IF CurrentLine(f).stmt = "try_await"
                  THEN [f EXCEPT !.status = "Running", !.lineno = AfterAwait(f)]
                  ELSE [f EXCEPT !.status = "TaskDone", !.task = Cancelled]]
    /\ UNCHANGED <<pvars, call, connections, buffers, namespaces, shared_stdout, script_builtins, connection>>

\* raise K("x"): K is looked up in the namespace's builtins
ExecRaise(i) ==
    LET f    == runs[i]
        name == CurrentLine(f).arg.value
        e    == IF name \in Builtins(f.builtins)
                THEN RuntimeExc(name, "x", f.lineno)
                ELSE RuntimeExc("NameError", name, f.lineno)
    IN
    /\ f.status = "Running"
    /\ CurrentLine(f).stmt = "raise"
    /\ runs' = [runs EXCEPT ![i] = TaskEnds([f EXCEPT !.raised_at = e], Raised(e),
                                            namespaces, buffers)]
    /\ UNCHANGED <<pvars, call, connections, buffers, namespaces, shared_stdout, script_builtins, connection>>

\* import m: __import__ of the namespace's builtins is called with the name
ExecImport(i) ==
    LET f    == runs[i]
        name == CurrentLine(f).arg.value
        err  == IF f.builtins = "sandboxed" THEN _safe_import(name) ELSE None
        e    == RuntimeExc("ImportError", err, f.lineno)
    IN
    /\ f.status = "Running"
    /\ CurrentLine(f).stmt = "import"
    /\ runs' = [runs EXCEPT ![i] =
                  IF err = None
                  THEN [f EXCEPT !.lineno = @ + 1, !.obtained = @ \cup {name}]
                  ELSE TaskEnds([f EXCEPT !.raised_at = e], Raised(e), namespaces, buffers)]
    /\ UNCHANGED <<pvars, call, connections, buffers, namespaces, shared_stdout, script_builtins, connection>>

\* x = name: the name is looked up in the namespace, then in its builtins
ExecRef(i) ==
    LET f    == runs[i]
        name == CurrentLine(f).arg.value
        e    == RuntimeExc("NameError", name, f.lineno)
    IN
    /\ f.status = "Running"
    /\ CurrentLine(f).stmt = "ref"
    /\ runs' = [runs EXCEPT ![i] =
                  IF name \in NamespaceNames \cup Builtins(f.builtins)
                  THEN [f EXCEPT !.lineno = @ + 1]
                  ELSE TaskEnds([f EXCEPT !.raised_at = e], Raised(e), namespaces, buffers)]
    /\ UNCHANGED <<pvars, call, connections, buffers, namespaces, shared_stdout, script_builtins, connection>>

\* __builtins__[name] = hasattr: the namespace's "__builtins__" is the dict
\* SCRIPT_BUILTINS itself in sandboxed mode and builtins.__dict__, which
\* has the name already, in unrestricted mode
ExecSetBuiltin(i) ==
    LET f    == runs[i]
        name == CurrentLine(f).arg.value
    IN
    /\ f.status = "Running"
    /\ CurrentLine(f).stmt = "set_builtin"
    /\ script_builtins' = IF f.builtins = "sandboxed" THEN script_builtins \cup {name}
                          ELSE script_builtins
    /\ runs' = [runs EXCEPT ![i] = [f EXCEPT !.lineno = @ + 1]]
    /\ UNCHANGED <<pvars, call, connections, buffers, namespaces, shared_stdout, connection>>

\* x = pathlib.attr: attribute access on a module of the namespace is not
\* intercepted in either mode
ExecAttr(i) ==
    LET f    == runs[i]
        name == CurrentLine(f).arg.value
        e    == RuntimeExc("AttributeError", name, f.lineno)
    IN
    /\ f.status = "Running"
    /\ CurrentLine(f).stmt = "attr"
    /\ runs' = [runs EXCEPT ![i] =
                  IF "pathlib" \in NamespaceNames /\ name \in PathlibAttrs
                  THEN [f EXCEPT !.lineno = @ + 1, !.obtained = @ \cup {name}]
                  ELSE TaskEnds([f EXCEPT !.raised_at = e], Raised(e), namespaces, buffers)]
    /\ UNCHANGED <<pvars, call, connections, buffers, namespaces, shared_stdout, script_builtins, connection>>

\* a top-level return leaves __script_main__ before the wrapper's last line
ExecReturn(i) ==
    LET f == runs[i] IN
    /\ f.status = "Running"
    /\ CurrentLine(f).stmt = "return"
    /\ runs' = [runs EXCEPT ![i] = TaskEnds(f, Returned, namespaces, buffers)]
    /\ UNCHANGED <<pvars, call, connections, buffers, namespaces, shared_stdout, script_builtins, connection>>

\* wrapper line globals()['result'] = result
ExecStoreResult(i) ==
    LET f  == runs[i]
        ns == [namespaces EXCEPT ![f.namespace] = f.local_result]
    IN
    /\ f.status = "Running"
    /\ CurrentLine(f).stmt = "store_result"
    /\ IF "globals" \in Builtins(f.builtins)
       THEN /\ namespaces' = ns
            /\ runs' = [runs EXCEPT ![i] =
                          TaskEnds([f EXCEPT !.stored = f.local_result], Returned, ns, buffers)]
       ELSE /\ namespaces' = namespaces
            /\ runs' = [runs EXCEPT ![i] =
                          TaskEnds(f, Raised(RuntimeExc("NameError", "globals", f.lineno)),
                                   namespaces, buffers)]
    /\ UNCHANGED <<pvars, call, connections, buffers, shared_stdout, script_builtins, connection>>

\* wait_for hands the outcome of the finished task to run
WaitForReturns(i) ==
    /\ runs[i].status = "TaskDone"
    /\ LoopFree
    /\ runs' = [runs EXCEPT ![i] = Conclude(@, runs[i].task, TRUE, namespaces, buffers)]
    /\ UNCHANGED <<pvars, call, connections, buffers, namespaces, shared_stdout, script_builtins, connection>>

InitExec(n) ==
    /\ runs = [i \in 1..n |-> PendingFrame]
    /\ buffers = [i \in 1..n |-> <<>>]
    /\ namespaces = [i \in 1..n |-> None]
    /\ shared_stdout = <<>>
    /\ script_builtins = SCRIPT_BUILTINS
    /\ connection = [_tapir_available |-> None]
    /\ connections = [p \in {} |-> None]
    /\ call = None

-----------------------------------------------------------------------------
(* Specifications                                                          *)

\* one invocation, every kind of script line
Init ==
    /\ platform = "linux"
    /\ config \in {SecurityConfig(m, get_default_blocked(platform), DEFAULT_ALLOWED_WRITE) :
                     m \in SecurityModes}
    /\ expanded_cache = format_file_access_docs(platform, config)
    /\ lastCheck = None
    /\ lastOpen = None
    /\ lastError = None
    /\ InitExec(1)

Next ==
    \E i \in 1..1 :
        \/ Start(i, ScriptsOver(ScriptLines, MaxLines))
        \/ TaskStarts(i)
        \/ ExecPrint(i)
        \/ ExecStdoutWrite(i)
        \/ ExecBind(i)
        \/ ExecAwait(i)
        \/ RemoteReturns(i)
        \/ RemoteRaises(i)
        \/ TimeoutFires(i)
        \/ ExecRaise(i)
        \/ ExecImport(i)
        \/ ExecRef(i)
        \/ ExecAttr(i)
        \/ ExecReturn(i)
        \/ ExecStoreResult(i)
        \/ WaitForReturns(i)

Spec == Init /\ [][Next]_vars

\* several invocations in flight on one event loop
InitConcurrent ==
    /\ platform = "linux"
    /\ config \in {SecurityConfig(m, get_default_blocked(platform), DEFAULT_ALLOWED_WRITE) :
                     m \in SecurityModes}
    /\ expanded_cache = format_file_access_docs(platform, config)
    /\ lastCheck = None
    /\ lastOpen = None
    /\ lastError = None
    /\ InitExec(NumRuns)

NextConcurrent ==
    \E i \in 1..NumRuns :
        \/ Start(i, ScriptsOver(ConcurrentLines, MaxConcLines))
        \/ TaskStarts(i)
        \/ ExecPrint(i)
        \/ ExecBind(i)
        \/ ExecAwait(i)
        \/ RemoteReturns(i)
        \/ RemoteRaises(i)
        \/ TimeoutFires(i)
        \/ ExecReturn(i)
        \/ ExecStoreResult(i)
        \/ WaitForReturns(i)

SpecConcurrent == InitConcurrent /\ [][NextConcurrent]_vars

\* several invocations, one after the other or interleaved, of scripts that
\* touch what they have in common: the builtins and the connection
NextShared ==
    \E i \in 1..NumRuns :
        \/ Start(i, ScriptsOver(SharedLines, MaxConcLines))
        \/ TaskStarts(i)
        \/ ExecSetBuiltin(i)
        \/ ExecRef(i)
        \/ ExecAwait(i)
        \/ RemoteReturns(i)
        \/ RemoteRaises(i)
        \/ RemoteRaisesNotRegistered(i)
        \/ TimeoutFires(i)
        \/ ExecReturn(i)
        \/ ExecStoreResult(i)
        \/ WaitForReturns(i)

SpecShared == InitConcurrent /\ [][NextShared]_vars

\* one invocation of a script that calls the instance
InitRemote ==
    /\ platform = "linux"
    /\ config \in {SecurityConfig(m, get_default_blocked(platform), DEFAULT_ALLOWED_WRITE) :
                     m \in SecurityModes}
    /\ expanded_cache = format_file_access_docs(platform, config)
    /\ lastCheck = None
    /\ lastOpen = None
    /\ lastError = None
    /\ InitExec(1)

NextRemote ==
    \E i \in 1..1 :
        \/ Start(i, ScriptsOver(RemoteLines, MaxLines))
        \/ TaskStarts(i)
        \/ ExecBind(i)
        \/ ExecAwait(i)
        \/ ExecSpawn(i)
        \/ DetachedTaskCalls(i)
        \/ RemoteReturns(i)
        \/ RemoteRaises(i)
        \/ RemoteRaisesNotRegistered(i)
        \/ TimeoutFires(i)
        \/ ExecStoreResult(i)
        \/ WaitForReturns(i)

SpecRemote == InitRemote /\ [][NextRemote]_vars

\* the file operations a script can perform, against every loaded policy
InitFiles ==
    /\ InitPolicy
    /\ InitExec(1)

NextFiles ==
    \/ \E file \in Paths, mode \in OpenModes :
          \/ safe_open(file, mode)
          \/ io_open(file, mode)
          \/ Path_open(file, mode)
          \/ builtins_open(file, mode)
    \/ ScriptMutateConfig

SpecFiles == InitFiles /\ [][NextFiles]_vars

-----------------------------------------------------------------------------
(* Calls of single functions                                               *)

\* every pattern of the default lists of the three platforms and of the
\* allowed-write lists
AllPatterns ==
    UNION { {c.blocked_patterns[k] : k \in DOMAIN c.blocked_patterns}
            \cup {c.allowed_write_patterns[k] : k \in DOMAIN c.allowed_write_patterns} :
            c \in UNION {Configs(plat) : plat \in Platforms} }

\* matches_pattern(path, pattern)
CallMatchesPattern(path, pattern) ==
    /\ call' = [kind |-> "matches_pattern", path |-> path, pattern |-> pattern,
                result |-> matches_pattern(platform, path, pattern)]
    /\ UNCHANGED <<pvars, xvars, connections>>

\* longest value a script returns
MaxListLen == 502

\* the first n positive integers in order
Items(n) == [i \in 1..n |-> i]

\* values handed to _process_result: lists of every length up to MaxListLen,
\* tuples and dicts around the cap, a number and None
RawResults ==
    {PyList(Items(n)) : n \in 0..MaxListLen}
    \cup {PyTuple(Items(n)) : n \in {0, MAX_RESULT_ITEMS, MaxListLen}}
    \cup {PyDict(Items(n)) : n \in {0, MAX_RESULT_ITEMS, MaxListLen}}
    \cup {PyInt(1), None}

\* self._process_result(result)
CallProcessResult(raw) ==
    /\ call' = [kind |-> "_process_result", raw |-> raw, result |-> _process_result(raw)]
    /\ UNCHANGED <<pvars, xvars, connections>>

\* values of ARCHICAD_MCP_SECURITY: unset, the two recognised words in
\* several capitalisations, and words that are not recognised
Selectors ==
    { None,
      PyStr(<<"s", "a", "n", "d", "b", "o", "x", "e", "d">>),
      PyStr(<<"S", "A", "N", "D", "B", "O", "X", "E", "D">>),
      PyStr(<<"S", "a", "n", "d", "b", "o", "x", "e", "d">>),
      PyStr(<<"s", "a", "n", "d", "B", "o", "X", "e", "d">>),
      PyStr(<<"u", "n", "r", "e", "s", "t", "r", "i", "c", "t", "e", "d">>),
      PyStr(<<"U", "n", "r", "e", "s", "t", "r", "i", "c", "t", "e", "d">>),
      PyStr(<<"s", "a", "n", "d", "b", "o", "x">>),
      PyStr(<<" ", "s", "a", "n", "d", "b", "o", "x", "e", "d">>),
      PyStr(<<"s", "a", "n", "d", "b", "o", "x", "e", "d", " ">>),
      PyStr(<<"s", "t", "r", "i", "c", "t">>),
      PyStr(<<"1">>),
      PyStr(<<>>) }

\* values of the two pattern-list variables
PatternListValues ==
    { None,
      PyStr(<<>>),
      PyStr(<<";">>),
      PyStr(<<"/", "o", "p", "t", "/", "*", ";", " ", "/", "s", "r", "v", "/", "*">>) }

Environs ==
    [ARCHICAD_MCP_SECURITY : Selectors,
     ARCHICAD_MCP_BLOCKED_PATHS : PatternListValues,
     ARCHICAD_MCP_ALLOWED_WRITE_PATHS : PatternListValues]

\* load_config() under the given environment
CallLoadConfig(environ) ==
    /\ call' = [kind |-> "load_config", environ |-> environ,
                result |-> load_config(platform, environ)]
    /\ UNCHANGED <<pvars, xvars, connections>>

\* messages of failed responses
ErrorMessages ==
    { NOT_REGISTERED,
      <<"A", "d", "d", "O", "n", " ", "i", "s", " ", "N", "O", "T", " ",
        "R", "e", "g", "i", "s", "t", "e", "r", "e", "d">>,
      <<"b", "o", "o", "m">>,
      <<>> }

\* responses to an add-on request: failed with and without code and
\* message, failed inside the add-on, and successful
Responses ==
    {Response(FALSE, ErrorDict(code, m), None) :
        code \in {PyInt(4010), PyInt(8000), None}, m \in ErrorMessages}
    \cup {Response(FALSE, None, None),
          Response(TRUE, None, ErrorDict(PyInt(7), <<"b", "a", "d">>)),
          SucceededResponse}

\* the states of the add-on record
AvailabilityRecords == {None, PyBool(TRUE), PyBool(FALSE)}

\* _execute_tapir receives the response to its request
CallExecuteTapirResponse(data, tapir_available) ==
    /\ call' = [kind |-> "_execute_tapir", data |-> data, before |-> tapir_available,
                result |-> _execute_tapir_response(data, tapir_available)]
    /\ UNCHANGED <<pvars, xvars, connections>>

InitCalls ==
    /\ platform \in Platforms
    /\ config = load_config(platform, EmptyEnviron)
    /\ expanded_cache = format_file_access_docs(platform, config)
    /\ lastCheck = None
    /\ lastOpen = None
    /\ lastError = None
    /\ InitExec(1)

NextCalls ==
    \/ \E path \in Paths, pattern \in AllPatterns : CallMatchesPattern(path, pattern)
    \/ \E raw \in RawResults : CallProcessResult(raw)
    \/ \E environ \in Environs : CallLoadConfig(environ)
    \/ \E data \in Responses, a \in AvailabilityRecords : CallExecuteTapirResponse(data, a)

SpecCalls == InitCalls /\ [][NextCalls]_vars

-----------------------------------------------------------------------------
(* Connection manager                                                      *)

\* ports that are scanned: range(19723, 19744)
PORT_RANGE == 19723..19743

MaxLivePorts == 2

\* ports on which something may answer; nothing listens on the others
LivePorts == {p \in PORT_RANGE : p < 19723 + MaxLivePorts}

\* what a port does with the product-info request and, if that succeeds,
\* with the project-info request that follows
Answer(product, project) == [product |-> product, project |-> project]

NoAnswer == Answer("TimeoutError", "none")

Answers ==
    {Answer(k, "none") : k \in {"TimeoutError", "ClientError", "status_500", "malformed",
                                "unsuccessful", "result_not_dict"}}
    \cup {Answer("succeeded", k) : k \in {"succeeded", "unsuccessful", "raises"}}

\* the probe the spec calls successful
ProbeSucceeded(answer) == answer.product = "succeeded"

\* info dict built from the two answers: its tapirAvailable entry
_get_full_info(answer) ==
    [tapirAvailable |-> IF answer.project = "succeeded" THEN PyBool(TRUE)
                        ELSE IF answer.project = "raises" THEN PyBool(FALSE)
                        ELSE None]

ArchicadConnection(port, info) ==
    [port |-> port,
     _tapir_available |-> IF info.tapirAvailable.kind = "bool" THEN info.tapirAvailable ELSE None]

\* dict.pop(port, None)
dict_pop(d, port) == [p \in DOMAIN d \ {port} |-> d[p]]

\* d[port] = value
dict_set(d, port, value) == [p \in DOMAIN d \cup {port} |-> IF p = port THEN value ELSE d[p]]

\* the table after the probe of one port
_probe_port(conns, port, answer) ==
    IF answer.product \in {"TimeoutError", "ClientError"}
    THEN dict_pop(conns, port)                      \* except (TimeoutError, ClientError)
    ELSE IF answer.product = "status_500"
    THEN dict_pop(conns, port)                      \* resp.status != 200
    ELSE IF answer.product = "malformed"
    THEN conns                                      \* resp.json raises; gather keeps the exception
    ELSE IF answer.product = "unsuccessful"
    THEN conns                                      \* data.get("succeeded") is false
    ELSE IF answer.product = "result_not_dict"
    THEN conns                                      \* isinstance(result, dict) is false
    ELSE dict_set(conns, port, ArchicadConnection(port, _get_full_info(answer)))

RECURSIVE gather(_, _, _)
\* the probes of the ports from `port` to the end of the range; each probe
\* touches the entry of its own port only
gather(conns, answers, port) ==
    IF port \notin PORT_RANGE
    THEN conns
    ELSE gather(_probe_port(conns, port, answers[port]), answers, port + 1)

\* what each port of the range answers during one scan
ScanAnswers ==
    {[p \in PORT_RANGE |-> IF p \in LivePorts THEN live[p] ELSE NoAnswer] :
        live \in [LivePorts -> Answers]}

scan_and_connect(answers) ==
    /\ connections' = gather(connections, answers, 19723)
    /\ call' = [kind |-> "scan_and_connect", answers |-> answers]
    /\ UNCHANGED <<pvars, xvars>>

refresh(answers) ==
    /\ connections' = gather(connections, answers, 19723)
    /\ call' = [kind |-> "refresh", answers |-> answers]
    /\ UNCHANGED <<pvars, xvars>>

InitManager ==
    /\ platform = "linux"
    /\ config = load_config(platform, EmptyEnviron)
    /\ expanded_cache = format_file_access_docs(platform, config)
    /\ lastCheck = None
    /\ lastOpen = None
    /\ lastError = None
    /\ InitExec(1)

NextManager ==
    \/ \E answers \in ScanAnswers : scan_and_connect(answers)
    \/ \E answers \in ScanAnswers : refresh(answers)

SpecManager == InitManager /\ [][NextManager]_vars

-----------------------------------------------------------------------------
(* Properties                                                              *)

\* C1: every file open a script performs is checked by the path policy first:
\* no call reaches the underlying open() for a path and intent on which
\* is_path_blocked answers true.
C1_EveryOpenIsPolicyChecked ==
    lastOpen # None => ~lastOpen.policy_blocks

\* C2: a path that matches a blocked pattern is blocked for a read and for a
\* write, in both modes, whatever the allowed-write list holds: the verdict of
\* every check on such a path is "blocked" and the underlying open is not reached.
C2_BlockedMatchWins ==
    (lastCheck # None /\ matches_any(platform, lastCheck.path, config.blocked_patterns))
        => (lastCheck.blocked /\ lastOpen = None)

\* a sandboxed write to a path that matches a blocked and an allowed-write
\* pattern has been checked and denied
C2_Witness ==
    /\ lastCheck # None
    /\ lastCheck.for_write
    /\ config.mode = "sandboxed"
    /\ matches_any(platform, lastCheck.path, config.blocked_patterns)
    /\ matches_any(platform, lastCheck.path, config.allowed_write_patterns)
    /\ lastCheck.blocked
    /\ lastOpen = None

\* C3: in sandboxed mode a write is permitted (the check passes and the
\* underlying open is reached) if and only if the path matches an allowed-write
\* pattern and no blocked pattern; with no matching allow pattern it is denied.
C3_SandboxedWriteIffAllowed ==
    (lastCheck # None /\ lastCheck.for_write /\ config.mode = "sandboxed")
        => LET permitted == ~lastCheck.blocked /\ lastOpen # None
               denied    == lastCheck.blocked /\ lastOpen = None /\ lastError # None
               allowed   == matches_any(platform, lastCheck.path, config.allowed_write_patterns)
               blocked   == matches_any(platform, lastCheck.path, config.blocked_patterns)
           IN  /\ permitted <=> (allowed /\ ~blocked)
               /\ denied <=> ~permitted

\* a sandboxed write through the namespace's open has been permitted
C3_Witness ==
    /\ lastCheck # None
    /\ lastCheck.for_write
    /\ config.mode = "sandboxed"
    /\ ~lastCheck.blocked
    /\ lastOpen # None
    /\ lastOpen.route = "open"
    /\ matches_any(platform, lastCheck.path, config.allowed_write_patterns)

\* C4: run never raises: every invocation that ends, ends by returning a
\* ScriptResult; no exception reaches the caller.
C4_RunNeverRaises ==
    \A i \in DOMAIN runs : runs[i].status # "Raised"

\* C5: after construction nothing changes the policy's mode, blocked patterns
\* or allowed-write patterns, whatever the scripts do.
C5_PolicyNeverChanges ==
    [][config' = config]_vars

\* C6: when invocations are in flight at the same time, the output of each
\* result is exactly the text its own script printed, and its value is what its
\* own script stored under `result` (no value on a failure).
C6_ConcurrentRunsIsolated ==
    \A i \in DOMAIN runs :
        LET f == runs[i] IN
        f.status = "Returned"
            => /\ f.result.stdout = f.printed
               /\ f.result.success => f.result.result = _process_result(f.stored)
               /\ ~f.result.success => f.result.result = None

\* two invocations that both awaited while the other was in flight have
\* returned: one printed and bound nothing, the other bound 7 and printed nothing
C6_Witness ==
    /\ \A i \in {1, 2} :
          /\ runs[i].status = "Returned"
          /\ runs[i].overlapped
          /\ runs[i].result.success
          /\ \E k \in DOMAIN runs[i].script : runs[i].script[k].stmt = "await"
    /\ runs[1].result.stdout = <<"a">>
    /\ runs[1].result.result = None
    /\ runs[2].result.stdout = <<>>
    /\ runs[2].result.result = PyInt(7)

\* C7: when the timeout of T seconds elapses while the script is suspended on
\* an await, run returns success = false, no value, the timed-out error naming
\* T, and an output that holds everything printed before the cancellation.
C7_TimeoutWhileSuspended ==
    \A i \in DOMAIN runs :
        LET f == runs[i] IN
        (f.timer = "fired" /\ f.status = "Returned")
            => /\ ~f.result.success
               /\ f.result.result = None
               /\ f.result.error = [kind |-> "timeout", seconds |-> f.timeout]
               /\ Len(f.result.stdout) >= Len(f.printed_at_timeout)
               /\ SubSeq(f.result.stdout, 1, Len(f.printed_at_timeout)) = f.printed_at_timeout

\* C8: when line n of the script is its first malformed line, the failure
\* names line n, not n shifted by the lines the wrapper places before the script.
C8_SyntaxErrorNamesScriptLine ==
    \A i \in DOMAIN runs :
        LET f == runs[i] IN
        (f.status = "Returned" /\ f.raised_at = None /\ f.result.error.kind = "syntax")
            => \A n \in DOMAIN f.script :
                  (/\ f.script[n].stmt = "bad"
                   /\ \A k \in 1..(n - 1) :
                         f.script[k].stmt \notin {"bad", "try_await", "except_pass"})
                      => f.result.error.lineno = PyInt(n)

\* C9: when the running script raises an error at its line n, run returns the
\* failure `Line n: Kind: message` followed by the stripped source line n, where
\* n is the wrapped line number minus the lines injected before the script.
C9_RuntimeErrorNamesScriptLine ==
    \A i \in DOMAIN runs :
        LET f == runs[i]
            e == f.raised_at
            n == e.tb_lineno.value - (BodyStart(Wrapped(f)) - 1)
        IN  (e # None /\ f.status \in {"Returned", "Raised"})
                => /\ f.status = "Returned"
                   /\ f.result.error = [kind |-> "runtime", line |-> PyInt(n), etype |-> e.type,
                                        msg |-> e.msg, source |-> strip(f.script[n])]

\* C10: every returned ScriptResult has success = false exactly when an error
\* is present and the value is absent; a success carries no error, a failure
\* carries no value.
C10_SuccessIffNoError ==
    \A i \in DOMAIN runs :
        LET f == runs[i] IN
        f.status = "Returned"
            => /\ ~f.result.success <=> (f.result.error # None /\ f.result.result = None)
               /\ f.result.success => f.result.error = None
               /\ ~f.result.success => f.result.result = None

\* a script that had bound `result` was cancelled by the timeout and its
\* failed result has been returned
C10_Witness ==
    \E i \in DOMAIN runs :
        /\ runs[i].status = "Returned"
        /\ runs[i].local_result # None
        /\ ~runs[i].result.success
        /\ runs[i].result.error.kind = "timeout"
        /\ runs[i].result.result = None

\* C11: in sandboxed mode a script holds only modules of the allowlist, and
\* every import or reference of a name outside it fails with the "not
\* available" error that lists the allowed set.
C11_SandboxAllowlistOnly ==
    \A i \in DOMAIN runs :
        LET f == runs[i]
            e == f.raised_at
            n == e.tb_lineno.value - (BodyStart(Wrapped(f)) - 1)
        IN  f.builtins = "sandboxed"
            => /\ f.obtained \subseteq ALLOWED_MODULES
               /\ (f.status = "Returned" /\ e # None /\ f.script[n].stmt \in {"import", "ref"})
                    => /\ f.result.error.kind = "runtime"
                       /\ f.result.error.etype = "ImportError"
                       /\ f.result.error.msg = NotAvailable(f.script[n].arg.value)

\* C12: when the namespace's open denies access, the PermissionError lists the
\* pattern list that caused the denial: the blocked patterns when the path
\* matches a blocked pattern, the allowed-write patterns when a sandboxed write
\* matches no allowed-write pattern.
C12_ErrorListsDecidingPatterns ==
    lastError # None
        => IF matches_any(platform, lastError.path, config.blocked_patterns)
           THEN /\ lastError.text = "Access denied"
                /\ lastError.listed = blocked_expanded(platform, config)
           ELSE /\ lastError.text = "Write access denied"
                /\ lastError.listed = allowed_write_expanded(platform, config)

\* C13: for a read in either mode and for a write in unrestricted mode, a path
\* is blocked exactly when it matches a blocked pattern, and policies that
\* differ only in their allowed-write list give the same verdict.
C13_AllowlistOnlyForSandboxedWrites ==
    (lastCheck # None /\ ~(lastCheck.for_write /\ config.mode = "sandboxed"))
        => /\ lastCheck.blocked
                <=> matches_any(platform, lastCheck.path, config.blocked_patterns)
           /\ \A a \in AllowedWriteChoices :
                is_path_blocked(platform, [config EXCEPT !.allowed_write_patterns = a],
                                lastCheck.path, lastCheck.for_write) = lastCheck.blocked

\* a sandboxed read of a path outside the allowed-write list has been permitted
C13_Witness ==
    /\ lastCheck # None
    /\ ~lastCheck.for_write
    /\ config.mode = "sandboxed"
    /\ ~matches_any(platform, lastCheck.path, config.allowed_write_patterns)
    /\ ~lastCheck.blocked
    /\ lastOpen # None

\* C14: matches_pattern gives the same answer for two spellings of the same
\* location that differ only in separator style or in writing the home
\* directory as "~" or in full, on the path side and on the pattern side.
\* A path can be spelled with either separator where both are separators
\* (win32); a pattern is respelled on every platform.
C14_MatchInvariantUnderSpelling ==
    call.kind = "matches_pattern"
        => LET seps == Seps(platform)
               home == Home(platform)
               SepSpellings(t) == {t, replace_char(t, "/", "\\"), replace_char(t, "\\", "/")}
               HomeSpellings(t, ss) ==
                   {t}
                   \cup (IF Len(t) >= 2 /\ t[1] = "~" /\ t[2] \in ss
                         THEN {home \o Tail(t)} ELSE {})
                   \cup (IF Len(t) > Len(home) /\ startswith(t, home) /\ t[Len(home) + 1] \in ss
                         THEN {<<"~">> \o SubSeq(t, Len(home) + 1, Len(t))} ELSE {})
               paths == UNION {IF platform = "win32" THEN SepSpellings(t) ELSE {t} :
                                 t \in HomeSpellings(call.path, seps)}
               patterns == UNION {SepSpellings(t) : t \in HomeSpellings(call.pattern, {"/", "\\"})}
           IN  \A p2 \in paths, q2 \in patterns :
                   matches_pattern(platform, p2, q2) = call.result

\* a path written with "~" has matched a pattern written with "~"
C14_Witness ==
    /\ call.kind = "matches_pattern"
    /\ call.path[1] = "~"
    /\ call.pattern[1] = "~"
    /\ call.result

\* C15: a list of length L returned by a script is handed on unchanged when
\* L <= 500; when L >= 501 it is replaced by a summary with total = L, the
\* first 50 elements in their order as sample, truncated = true and a
\* warning text naming L and 50.
C15_ListTruncatedAboveCap ==
    (call.kind = "_process_result" /\ call.raw.kind = "list")
        => LET L == Len(call.raw.items)
           IN  IF L <= 500
               THEN call.result = call.raw
               ELSE call.result = [kind |-> "dict", total |-> L,
                                   sample |-> [i \in 1..50 |-> call.raw.items[i]],
                                   truncated |-> TRUE, warning |-> <<L, 50>>]

\* a list of 501 items has been summarised
C15_Witness ==
    /\ call.kind = "_process_result"
    /\ call.raw.kind = "list"
    /\ Len(call.raw.items) = 501
    /\ call.result # call.raw
    /\ call.result.total = 501

\* C16: the value is replaced by the summary exactly when it is a sequence
\* (list or tuple) of more than 500 elements; every other value is handed on
\* unchanged.
C16_EverySequenceTruncatedAboveCap ==
    call.kind = "_process_result"
        => LET raw == call.raw
               long == raw.kind \in {"list", "tuple"} /\ Len(raw.items) > 500
           IN  IF long
               THEN call.result = [kind |-> "dict", total |-> Len(raw.items),
                                   sample |-> [i \in 1..50 |-> raw.items[i]],
                                   truncated |-> TRUE,
                                   warning |-> <<Len(raw.items), 50>>]
               ELSE call.result = raw

\* C17: all text a script generates goes to the buffer of its invocation and
\* none to the standard output stream of the process; the output of every
\* returned result is exactly the text the script produced, in order.
C17_AllOutputCaptured ==
    /\ shared_stdout = <<>>
    /\ \A i \in DOMAIN runs :
           runs[i].status = "Returned" => runs[i].result.stdout = runs[i].produced

\* C20: load_config selects the sandboxed mode exactly when the selector is
\* set and spells "sandboxed" in any capitalisation; for every other value,
\* unset and unrecognised ones included, it selects the unrestricted mode.
C20_SandboxedIffSelectorSaysSo ==
    call.kind = "load_config"
        => LET sel == call.environ.ARCHICAD_MCP_SECURITY
               lo  == <<"s", "a", "n", "d", "b", "o", "x", "e", "d">>
               up  == <<"S", "A", "N", "D", "B", "O", "X", "E", "D">>
               says == /\ sel # None
                       /\ Len(sel.value) = Len(lo)
                       /\ \A k \in DOMAIN lo : sel.value[k] \in {lo[k], up[k]}
           IN  call.result.mode = IF says THEN "sandboxed" ELSE "unrestricted"

\* a selector in mixed case has selected the sandboxed mode
C20_Witness ==
    /\ call.kind = "load_config"
    /\ call.environ.ARCHICAD_MCP_SECURITY = PyStr(<<"s", "a", "n", "d", "B", "o", "X", "e", "d">>)
    /\ call.result.mode = "sandboxed"

\* C18: nothing is retried: every awaited remote call is one call of execute
\* and at most one request, after a failed call no request follows for it,
\* and no call of execute is made for an invocation after it has returned.
C18_NoCallAfterReturn ==
    \A i \in DOMAIN runs :
        \A k \in DOMAIN runs[i].executes :
            /\ runs[i].executes[k].requests \in {0, 1}
            /\ ~runs[i].executes[k].after_return

\* C19: archicad.command hands execute a name with the prefix "API." exactly
\* once, archicad.tapir hands the name on unchanged; a call through command
\* is executed as a built-in command and a call through tapir as an add-on
\* command.
C19_EntryPointDecidesCommandSet ==
    \A i \in DOMAIN runs :
        \A k \in DOMAIN runs[i].executes :
            LET x == runs[i].executes[k]
                prefixed == Len(x.name) >= 4 /\ SubSeq(x.name, 1, 4) = <<"A", "P", "I", ".">>
            IN  IF x.via = "command"
                THEN /\ x.command = IF prefixed THEN x.name ELSE <<"A", "P", "I", ".">> \o x.name
                     /\ x.handler = "_execute_builtin"
                ELSE /\ x.command = x.name
                     /\ x.handler = "_execute_tapir"

\* C21: the blocked list load_config returns holds every default blocked
\* pattern of the platform followed by each non-empty configured extra
\* pattern; the write-allow list is the configured list when one is given,
\* with no default kept, and the defaults when none is given.
C21_BlockedMergedAllowedReplaced ==
    call.kind = "load_config"
        => LET opt == <<"/", "o", "p", "t", "/", "*">>
               srv == <<"/", "s", "r", "v", "/", "*">>
               given == PyStr(<<"/", "o", "p", "t", "/", "*", ";", " ", "/", "s", "r", "v", "/", "*">>)
               only_delimiter == PyStr(<<";">>)
               Configured(v) == IF v = given THEN <<opt, srv>> ELSE <<>>
               Provided(v) == v \in {given, only_delimiter}
               defaults == IF platform = "win32" THEN DEFAULT_BLOCKED_WINDOWS
                           ELSE IF platform = "darwin" THEN DEFAULT_BLOCKED_MACOS
                           ELSE DEFAULT_BLOCKED_LINUX
               b == call.environ.ARCHICAD_MCP_BLOCKED_PATHS
               a == call.environ.ARCHICAD_MCP_ALLOWED_WRITE_PATHS
           IN  /\ call.result.blocked_patterns = defaults \o Configured(b)
               /\ call.result.allowed_write_patterns =
                      IF Provided(a) THEN Configured(a) ELSE DEFAULT_ALLOWED_WRITE

\* both lists were configured: two patterns were added to the defaults and
\* the write-allow list is the two configured patterns
C21_Witness ==
    /\ call.kind = "load_config"
    /\ call.environ.ARCHICAD_MCP_BLOCKED_PATHS # None
    /\ call.environ.ARCHICAD_MCP_ALLOWED_WRITE_PATHS # None
    /\ Len(call.result.blocked_patterns) = Len(get_default_blocked(platform)) + 2
    /\ Len(call.result.allowed_write_patterns) = 2
    /\ call.result.allowed_write_patterns # DEFAULT_ALLOWED_WRITE

\* C22: an invocation moves only from Pending to Running (through
\* compiling) and from Running to Completed, Failed or TimedOut; a terminal
\* state and its result never change; a script that does not compile goes
\* from Pending to Failed at once, with no statement executed, no output
\* captured and no remote call made.
C22_LifecycleOnly ==
    [][LET Phase(f) ==
               IF f.status = "Pending" THEN "Pending"
               ELSE IF InFlight(f) THEN "Running"
               ELSE IF f.status # "Returned" THEN "NoResult"
               ELSE IF f.result.success THEN "Completed"
               ELSE IF f.result.error.kind = "timeout" THEN "TimedOut"
               ELSE "Failed"
           Terminal == {"Completed", "Failed", "TimedOut"}
           Step(f, g) ==
               \/ Phase(f) = Phase(g) /\ (Phase(f) \in Terminal => g.result = f.result)
               \/ Phase(f) = "Pending" /\ Phase(g) = "Running" /\ compile(Wrapped(g)) = None
               \/ /\ Phase(f) = "Pending" /\ Phase(g) = "Failed"
                  /\ compile(Wrapped(g)) # None
                  /\ g.produced = <<>> /\ g.result.stdout = <<>> /\ g.executes = <<>>
               \/ Phase(f) = "Running" /\ Phase(g) \in Terminal
       IN  \A i \in DOMAIN runs : Step(runs[i], runs'[i])]_vars

\* C23: invocations share no mutable state: what an invocation observes does
\* not depend on what another invocation did.  A sandboxed script that does
\* not touch the builtins itself and starts with `x = getattr` fails at
\* line 1 with NameError for getattr, whatever other invocations did.
C23_NoSharedMutableState ==
    \A i \in DOMAIN runs :
        LET f == runs[i]
        IN  ( /\ f.status = "Returned"
              /\ f.builtins = "sandboxed"
              /\ f.script[1] = Line("ref", PyStr("getattr"))
              /\ \A k \in DOMAIN f.script : f.script[k].stmt # "set_builtin" )
            => /\ ~f.result.success
               /\ f.result.error.kind = "runtime"
               /\ f.result.error.etype = "NameError"
               /\ f.result.error.msg = "getattr"

\* C24: the pattern goes through the same normalization as the path (home
\* expansion, resolution to an absolute canonical form, separator
\* conversion, case-folding on win32), so the answer of matches_pattern is
\* the answer obtained when the pattern, its placeholder for the temporary
\* directory filled in, is normalized the way the path is.
C24_PatternNormalizedLikePath ==
    call.kind = "matches_pattern"
        => LET filled == IF contains_sub(call.pattern, TEMP_PLACEHOLDER)
                         THEN replace_sub(call.pattern, TEMP_PLACEHOLDER, TempDir(platform))
                         ELSE call.pattern
           IN  call.result = fnmatch(platform,
                                     normalize_for_match(platform, call.path),
                                     normalize_for_match(platform, filled))

\* C25: once the connection has recorded the add-on as unavailable, the
\* record stays unavailable, and every add-on command begun from then on is
\* refused with no request sent.
C25_UnavailableIsFinal ==
    [][connection._tapir_available = PyBool(FALSE)
          => /\ connection'._tapir_available = PyBool(FALSE)
             /\ \A i \in DOMAIN runs :
                    Len(runs'[i].executes) > Len(runs[i].executes)
                        => LET x == runs'[i].executes[Len(runs'[i].executes)]
                           IN  x.handler = "_execute_tapir" => x.requests = 0]_vars

\* C26: a failed add-on response is classified in exactly one way: code 4010
\* gives CommandError for an unknown command and records the add-on as
\* available, whatever the message; otherwise a message containing
\* "not registered" in any letter case gives TapirNotAvailableError and
\* records the add-on as unavailable; every other failure gives CommandError
\* with the code and leaves the record as it was.
C26_FailedResponseClassified ==
    (call.kind = "_execute_tapir" /\ ~call.data.succeeded)
        => LET code == IF call.data.error = None THEN None ELSE call.data.error.code
               says_not_registered ==
                   /\ call.data.error # None
                   /\ call.data.error.message \in
                       { <<"n", "o", "t", " ", "r", "e", "g", "i", "s", "t", "e", "r", "e", "d">>,
                         <<"A", "d", "d", "O", "n", " ", "i", "s", " ", "N", "O", "T", " ",
                           "R", "e", "g", "i", "s", "t", "e", "r", "e", "d">> }
               r == call.result
           IN  IF code = PyInt(4010)
               THEN /\ r.raises = "CommandError"
                    /\ r.unknown_command
                    /\ r._tapir_available = PyBool(TRUE)
               ELSE IF says_not_registered
               THEN /\ r.raises = "TapirNotAvailableError"
                    /\ r._tapir_available = PyBool(FALSE)
               ELSE /\ r.raises = "CommandError"
                    /\ ~r.unknown_command
                    /\ r.code = code
                    /\ r._tapir_available = call.before

\* a response with code 4010 and a message saying "not registered" was
\* classified as an unknown command
C26_Witness ==
    /\ call.kind = "_execute_tapir"
    /\ call.data.error = ErrorDict(PyInt(4010), NOT_REGISTERED)
    /\ call.before = None
    /\ call.result.raises = "CommandError"
    /\ call.result._tapir_available = PyBool(TRUE)

\* C27: a result reports the failure that occurred: "timed out" only when the
\* timeout elapsed before the script finished, "syntax error" only when the
\* submitted script did not compile; a SyntaxError or TimeoutError raised by
\* the running script itself is reported as a runtime failure.
C27_ReportedKindIsWhatHappened ==
    \A i \in DOMAIN runs :
        LET f == runs[i] IN
        f.status = "Returned"
            => /\ f.result.error.kind = "timeout" => f.timer = "fired"
               /\ f.result.error.kind = "syntax" => compile(Wrapped(f)) # None
               /\ (f.raised_at # None /\ f.raised_at.type \in {"SyntaxError", "TimeoutError"})
                      => f.result.error.kind = "runtime"

C29_CompletedReturnsLastBound ==
    \A i \in DOMAIN runs :
        LET f == runs[i] IN
        (f.status = "Returned" /\ f.result.success)
            => f.result.result = _process_result(f.local_result)

\* C30: after scan_and_connect or refresh the connection table holds exactly
\* the ports of the scan range whose product-info probe succeeded during
\* that scan, and never a port outside the range.
C30_TableIsWhatTheScanFound ==
    /\ DOMAIN connections \subseteq PORT_RANGE
    /\ call.kind \in {"scan_and_connect", "refresh"}
          => DOMAIN connections = {p \in PORT_RANGE : ProbeSucceeded(call.answers[p])}

====
